---- MODULE Spec2Model ----
(***************************************************************************)
(* A model of script.js, the skin viewer page: the startup restore         *)
(* (initializeViewer), the two-step skin resolution (fetchSkinFromMojang), *)
(* the file upload (readSkinFile / handleFiles) and the event wiring       *)
(* (wireEvents).  Every await of the script is a separate step, so the     *)
(* callbacks of overlapping user actions interleave as the browser's event *)
(* loop lets them.                                                         *)
(*                                                                         *)
(* JavaScript strings whose characters the code inspects (the search text, *)
(* UUIDs, player names, file names) are sequences of one-character         *)
(* strings.  Skin sources (texture URLs, data URLs) are only tested for    *)
(* truthiness and are TLA+ strings.                                        *)
(***************************************************************************)
EXTENDS Integers, Sequences, FiniteSets, TLC

\* ------------------------------------------------------------------ bounds
\* Number of asynchronous operations (the startup restore, resolutions, file
\* uploads) that may be in flight at once.
MaxInFlight == 2

\* ----------------------------------------------------------- string values
Whitespace == {" ", "\t", "\n"}

RECURSIVE TrimStart(_)
TrimStart(s) ==
    IF s # <<>> /\ Head(s) \in Whitespace THEN TrimStart(Tail(s)) ELSE s

RECURSIVE TrimEnd(_)
TrimEnd(s) ==
    IF s # <<>> /\ s[Len(s)] \in Whitespace
    THEN TrimEnd(SubSeq(s, 1, Len(s) - 1))
    ELSE s

\* String.prototype.trim
Trim(s) == TrimEnd(TrimStart(s))

\* the character class without the i flag
IsHexCharLower(c) ==
    c \in {"0", "1", "2", "3", "4", "5", "6", "7", "8", "9", "a", "b", "c", "d", "e", "f"}

\* [0-9a-f] under the i flag
IsHexChar(c) ==
    c \in {"0", "1", "2", "3", "4", "5", "6", "7", "8", "9",
           "a", "b", "c", "d", "e", "f", "A", "B", "C", "D", "E", "F"}

\* /^[0-9a-f]{32}$/i
MatchHex32(s) == Len(s) = 32 /\ \A i \in 1..Len(s) : IsHexChar(s[i])

\* /^[0-9a-f]{8}-[0-9a-f]{4}-[0-9a-f]{4}-[0-9a-f]{4}-[0-9a-f]{12}$/i
MatchDashedUUID(s) ==
    /\ Len(s) = 36
    /\ \A i \in 1..Len(s) :
          IF i \in {9, 14, 19, 24} THEN s[i] = "-" ELSE IsHexChar(s[i])

\* the condition of line 36 negated: the input is used as the UUID directly
LooksLikeUUID(s) == MatchHex32(s) \/ MatchDashedUUID(s)

\* uuid.replace('-', ''): the first dash only
RemoveFirstDash(s) ==
    LET hits == {i \in 1..Len(s) : s[i] = "-"} IN
    IF hits = {} THEN s
    ELSE LET i == CHOOSE k \in hits : \A j \in hits : k <= j
         IN SubSeq(s, 1, i - 1) \o SubSeq(s, i + 1, Len(s))

\* uuid.replace(/-/g, '')
RemoveDashes(s) == SelectSeq(s, LAMBDA c : c # "-")

\* String.prototype.endsWith
EndsWith(s, suffix) ==
    /\ Len(s) >= Len(suffix)
    /\ SubSeq(s, Len(s) - Len(suffix) + 1, Len(s)) = suffix

\* the JavaScript value undefined, where a player name or an id may be one
Undefined == <<"#undefined">>

\* string conversion of a value interpolated into a message or stored
ToStr(x) ==
    IF x = Undefined THEN <<"u", "n", "d", "e", "f", "i", "n", "e", "d">> ELSE x

\* ------------------------------------------------------------ input values
Hex32Lower ==
    <<"0", "6", "9", "a", "7", "9", "f", "4", "4", "4", "e", "9", "4", "7", "2", "6",
      "a", "5", "b", "e", "f", "c", "a", "9", "0", "e", "3", "8", "a", "a", "f", "5">>

Hex32Mixed ==
    <<"0", "6", "9", "A", "7", "9", "F", "4", "4", "4", "e", "9", "4", "7", "2", "6",
      "a", "5", "B", "E", "f", "c", "a", "9", "0", "E", "3", "8", "a", "a", "f", "5">>

DashedLower ==
    <<"0", "6", "9", "a", "7", "9", "f", "4", "-", "4", "4", "e", "9", "-",
      "4", "7", "2", "6", "-", "a", "5", "b", "e", "-",
      "f", "c", "a", "9", "0", "e", "3", "8", "a", "a", "f", "5">>

DashedUpper ==
    <<"0", "6", "9", "A", "7", "9", "F", "4", "-", "4", "4", "E", "9", "-",
      "4", "7", "2", "6", "-", "A", "5", "B", "E", "-",
      "F", "C", "A", "9", "0", "E", "3", "8", "A", "A", "F", "5">>

\* 32 characters, the last one not a hex digit: a username by line 36
Hex31G == SubSeq(Hex32Lower, 1, 31) \o <<"g">>

TypedName == <<"n", "o", "t", "c", "h">>
GhostName == <<"g", "h", "o", "s", "t">>
AlexName == <<"a", "l", "e", "x">>
SteveName == <<"s", "t", "e", "v", "e">>
NameA == <<"N", "o", "t", "c", "h">>
NameB == <<"N", "O", "T", "C", "H">>

\* what playerSearchInput.value may hold when a fetch is requested
SearchTexts ==
    { <<>>,
      <<" ", "\t">>,
      <<" ">> \o TypedName \o <<" ">>,
      DashedUpper }

\* the texts that trim to nothing
BlankTexts == { <<>>, <<" ", "\t">> }

\* the texts that start a resolution
FetchTexts == SearchTexts \ BlankTexts

\* the same with the texts at the edges of the two UUID patterns
EdgeTexts ==
    SearchTexts \cup { <<" ">> \o Hex32Mixed \o <<"\n">>, DashedLower, Hex31G }

\* ----------------------------------------------------------------- status
Msg(text, arg, isError) == [text |-> text, arg |-> arg, isError |-> isError]

MsgNone == Msg("", <<>>, FALSE)
MsgStarting == Msg("Viewer is still starting up. Please try again in a second.", <<>>, TRUE)
MsgEnterName == Msg("Please enter a username or UUID.", <<>>, TRUE)
MsgFetching == Msg("Fetching skin from Mojang...", <<>>, FALSE)
MsgNotFound(input) == Msg("Player \"${input}\" not found.", input, TRUE)
MsgProfileFailed == Msg("Failed to fetch player profile. Try again later.", <<>>, TRUE)
MsgSkinDataFailed == Msg("Failed to fetch skin data.", <<>>, TRUE)
MsgNoSkinData == Msg("No skin data found for this player.", <<>>, TRUE)
MsgNoSkin == Msg("No skin found for this player.", <<>>, TRUE)
MsgLoadedFor(name) ==
    Msg("Loaded skin for <strong>${playerName}</strong>! Scroll to zoom and drag to orbit.",
        ToStr(name), FALSE)
MsgFetchError == Msg("An error occurred while fetching the skin. Please try again.", <<>>, TRUE)
MsgSavedFor(name) ==
    Msg("Loaded saved skin for <strong>${savedPlayerName}</strong>! Scroll to zoom and drag to orbit.",
        name, FALSE)
MsgSaved == Msg("Loaded saved skin! Scroll to zoom and drag to orbit.", <<>>, FALSE)
MsgReady == Msg("Ready! Upload a skin file or fetch one by username.", <<>>, FALSE)
MsgNotPNG == Msg("Please select a PNG file (e.g. skin.png).", <<>>, TRUE)
MsgTooLarge == Msg("That file is quite large. Try a file under 5 MB.", <<>>, TRUE)
MsgLoadingFile == Msg("Loading skin...", <<>>, FALSE)
MsgSkinLoaded == Msg("Skin loaded! Scroll to zoom and drag the preview to orbit.", <<>>, FALSE)
MsgFileWrong == Msg("Something went wrong reading that skin file.", <<>>, TRUE)
MsgCouldNotRead == Msg("Could not read that file. Please try again.", <<>>, TRUE)
MsgNoFile == Msg("No file detected. Drop a Minecraft skin PNG.", <<>>, TRUE)

\* ---------------------------------------------------------- local storage
SetItem(st, k, v) == [x \in DOMAIN st \cup {k} |-> IF x = k THEN v ELSE st[x]]
RemoveItem(st, k) == [x \in DOMAIN st \ {k} |-> st[x]]
HasItem(st, k) == k \in DOMAIN st

\* the two skin keys of a storage
SkinKeysOf(st) == [k \in DOMAIN st \cap {"currentSkin", "currentPlayerName"} |-> st[k]]

\* lines 89-90
StoreFetchedSkin(st, skinUrl, playerName) ==
    SetItem(SetItem(st, "currentSkin", skinUrl), "currentPlayerName", ToStr(playerName))

\* line 182 without line 183
StoreUploadedSkinKeepsName(st, skinData) == SetItem(st, "currentSkin", skinData)

\* lines 182-183
StoreUploadedSkin(st, skinData) ==
    RemoveItem(SetItem(st, "currentSkin", skinData), "currentPlayerName")

\* line 147 without line 148
ClearSavedSkinOnly(st) == RemoveItem(st, "currentSkin")

\* lines 147-148
ClearSavedSkin(st) == RemoveItem(RemoveItem(st, "currentSkin"), "currentPlayerName")

\* ------------------------------------------------- what the network returns
\* a settled fetch(): rejected (network error) or a response with a status
HttpResults ==
    { [rejected |-> TRUE, status |-> 0],
      [rejected |-> FALSE, status |-> 200],
      [rejected |-> FALSE, status |-> 404],
      [rejected |-> FALSE, status |-> 500] }

Rejected == [rejected |-> TRUE, status |-> 0]
Http(status) == [rejected |-> FALSE, status |-> status]

\* Response.ok
Ok(r) == r.status >= 200 /\ r.status <= 299

EmptyObj == [k \in {} |-> TRUE]

\* obj.k for a key that may be missing
Field(obj, k) == IF k \in DOMAIN obj THEN obj[k] ELSE Undefined

\* bodies of the name lookup: valid is whether response.json() resolves
NameBodies ==
    << [valid |-> FALSE, obj |-> EmptyObj],
       [valid |-> TRUE, obj |-> [id |-> Hex32Lower, name |-> NameA]],
       [valid |-> TRUE, obj |-> [id |-> DashedLower, name |-> NameA]],
       [valid |-> TRUE, obj |-> [name |-> NameA]] >>

\* a textures value: b64 is whether atob accepts it, json whether JSON.parse
\* accepts the decoded text, obj the parsed descriptor
TexValue(b64, json, obj) == [b64 |-> b64, json |-> json, obj |-> obj]
Tex(obj) == TexValue(TRUE, TRUE, obj)
SkinAt(url) == [textures |-> [SKIN |-> [url |-> url]]]
Prop(name, value) == [name |-> name, value |-> value]

\* bodies of the profile-by-UUID call
BodyInvalid == [valid |-> FALSE, obj |-> EmptyObj]
BodyNoProperties == [valid |-> TRUE, obj |-> [name |-> NameA]]
BodyNoTexturesProperty ==
    [valid |-> TRUE, obj |-> [name |-> NameA,
        properties |-> <<Prop("uploadableTextures", Tex(SkinAt("url2")))>>]]
BodySkin1 ==
    [valid |-> TRUE, obj |-> [name |-> NameA,
        properties |-> <<Prop("textures", Tex(SkinAt("url1")))>>]]
BodySkin2 ==
    [valid |-> TRUE, obj |-> [name |-> NameB,
        properties |-> <<Prop("other", Tex(SkinAt("url1"))),
                         Prop("textures", Tex(SkinAt("url2"))),
                         Prop("textures", Tex(SkinAt("url1")))>>]]
BodyNoName ==
    [valid |-> TRUE, obj |-> [properties |-> <<Prop("textures", Tex(SkinAt("url1")))>>]]
BodyNotBase64 ==
    [valid |-> TRUE, obj |-> [name |-> NameA,
        properties |-> <<Prop("textures", TexValue(FALSE, FALSE, EmptyObj))>>]]
BodyNotJson ==
    [valid |-> TRUE, obj |-> [name |-> NameA,
        properties |-> <<Prop("textures", TexValue(TRUE, FALSE, EmptyObj))>>]]
\* the descriptor {}
BodyNoTexturesObject ==
    [valid |-> TRUE, obj |-> [name |-> NameA,
        properties |-> <<Prop("textures", Tex(EmptyObj))>>]]
\* the descriptor {textures: {}}
BodyNoSkinEntry ==
    [valid |-> TRUE, obj |-> [name |-> NameA,
        properties |-> <<Prop("textures", Tex([textures |-> EmptyObj]))>>]]
\* the descriptor {textures: {SKIN: {}}}
BodyNoUrl ==
    [valid |-> TRUE, obj |-> [name |-> NameA,
        properties |-> <<Prop("textures", Tex([textures |-> [SKIN |-> EmptyObj]]))>>]]
\* the descriptor {textures: {SKIN: {url: ""}}}
BodyEmptyUrl ==
    [valid |-> TRUE, obj |-> [name |-> NameA,
        properties |-> <<Prop("textures", Tex(SkinAt("")))>>]]

SessionBodies ==
    << BodyInvalid, BodyNoProperties, BodyNoTexturesProperty, BodySkin1, BodySkin2,
       BodyNoName, BodyNotBase64, BodyNotJson, BodyNoTexturesObject, BodyNoSkinEntry,
       BodyNoUrl, BodyEmptyUrl >>

\* sessionData.properties.find(prop => prop.name === "textures"): the index of
\* the first match, 0 when there is none
FindTextures(props) ==
    LET hits == {i \in 1..Len(props) : props[i].name = "textures"}
    IN IF hits = {} THEN 0 ELSE CHOOSE i \in hits : \A j \in hits : i <= j

\* texturesJson.textures.SKIN?.url, "" standing for undefined: threw is the
\* TypeError of reading SKIN of a missing textures object
SkinUrlOf(texturesJson) ==
    IF "textures" \notin DOMAIN texturesJson
    THEN [threw |-> TRUE, url |-> ""]
    ELSE IF "SKIN" \notin DOMAIN texturesJson.textures
    THEN [threw |-> FALSE, url |-> ""]
    ELSE IF "url" \notin DOMAIN texturesJson.textures.SKIN
    THEN [threw |-> FALSE, url |-> ""]
    ELSE [threw |-> FALSE, url |-> texturesJson.textures.SKIN.url]

Outcome(kind, playerName, skinUrl) ==
    [kind |-> kind, playerName |-> playerName, skinUrl |-> skinUrl]

\* the same without line 68: the name guessed before the profile call is kept
DecodeSessionKeepsName(body, playerName) ==
    IF ~body.valid \/ "properties" \notin DOMAIN body.obj
    THEN Outcome("threw", playerName, "")
    ELSE LET props == body.obj.properties
             i == FindTextures(props) IN
      IF i = 0 THEN Outcome("noData", playerName, "")
      ELSE IF ~props[i].value.b64 \/ ~props[i].value.json
      THEN Outcome("threw", playerName, "")
      ELSE LET got == SkinUrlOf(props[i].value.obj) IN
        IF got.threw THEN Outcome("threw", playerName, "")
        ELSE IF got.url = "" THEN Outcome("noSkin", playerName, "")
        ELSE Outcome("load", playerName, got.url)

\* lines 67-83 on the body of the profile call: "threw" (to the catch block),
\* "noData", "noSkin" or "load" (viewer.loadSkin is called with skinUrl)
DecodeSession(body, playerName) ==
    IF ~body.valid THEN Outcome("threw", playerName, "")
    ELSE LET name == Field(body.obj, "name") IN
      IF "properties" \notin DOMAIN body.obj THEN Outcome("threw", name, "")
      ELSE LET props == body.obj.properties
               i == FindTextures(props) IN
        IF i = 0 THEN Outcome("noData", name, "")
        ELSE IF ~props[i].value.b64 \/ ~props[i].value.json
        THEN Outcome("threw", name, "")
        ELSE LET got == SkinUrlOf(props[i].value.obj) IN
          IF got.threw THEN Outcome("threw", name, "")
          ELSE IF got.url = "" THEN Outcome("noSkin", name, "")
          ELSE Outcome("load", name, got.url)

\* -------------------------------------------------------------------- files
\* 5 * 1024 * 1024
MaxFileSize == 5242880

PngName == <<"s", ".", "p", "n", "g">>
UpperName == <<"s", ".", "P", "N", "G">>
ShortName == <<"p", "n", "g">>

File(type, name, size, data) == [type |-> type, name |-> name, size |-> size, data |-> data]

Files ==
    { File(t, n, z, "data1") :
        t \in {"image/png", "text/plain"},
        n \in {PngName, UpperName, ShortName},
        z \in {MaxFileSize, MaxFileSize + 1} }

\* the FileList of a change or drop event
FileLists ==
    {<<>>} \cup {<<f>> : f \in Files}
      \cup { <<File("image/png", PngName, 0, "data1"), File("image/png", PngName, 0, "data2")>>,
             <<File("text/plain", UpperName, 0, "data2"), File("image/png", PngName, 0, "data1")>> }

\* the suffix test without its dot
IsPNGNoDot(file) == file.type = "image/png" \/ EndsWith(file.name, <<"p", "n", "g">>)

\* line 162
IsPNG(file) == file.type = "image/png" \/ EndsWith(file.name, <<".", "p", "n", "g">>)

\* the size test with >= for >
TooLargeInclusive(file) == file.size >= MaxFileSize

\* line 168
TooLarge(file) == file.size > MaxFileSize

\* FileReader.readAsDataURL: the data URL of the file's bytes
DataURL(file) == file.data

\* -------------------------------------------------------------------- state
VARIABLES
    localStorage,     \* the keys present and their values
    statusText,       \* what setStatus last showed
    fetchSkinBtn,     \* [disabled]
    animationToggle,  \* [checked]
    viewer,           \* [constructed, skin, animation]
    page,             \* "loading", then "wired" once DOMContentLoaded has run
    restore,          \* initializeViewer: [pc, savedSkin]
    fetches,          \* invocations of fetchSkinFromMojang past validation
    uploads,          \* file reads started by readSkinFile
    lastRun           \* history: what the last finished resolution did

vars == <<localStorage, statusText, fetchSkinBtn, animationToggle, viewer, page,
          restore, fetches, uploads, lastRun>>

FetchIds == 1..MaxInFlight
UploadIds == 1..MaxInFlight

\* an invocation that has not started; calls is the list of network calls
\* issued so far, loads the number of viewer.loadSkin calls
IdleFetch ==
    [pc |-> "idle", input |-> <<>>, uuid |-> <<>>, playerName |-> <<>>,
     skinUrl |-> "", nameStatus |-> 0, calls |-> <<>>, loads |-> 0]

IdleUpload == [pc |-> "idle", skinData |-> "", loads |-> 0]

Call(kind, key) == [kind |-> kind, key |-> key]

\* lastRun is a history variable, not a variable of the script: it is written
\* only by the specification that compares two resolutions in succession
\* and stays NoRun in every other one
NoRun ==
    [input |-> <<>>, calls |-> <<>>, status |-> MsgNone, keys |-> EmptyObj,
     again |-> FALSE]

\* what the script can have left in local storage on an earlier visit: the
\* skin keys (lines 89-90, 182-183, 147-148) and the preference (line 276)
SavedSkins ==
    { EmptyObj,
      [currentSkin |-> "data1"],
      [currentSkin |-> "url1", currentPlayerName |-> NameA] }

SavedStorages ==
    LET anims == { EmptyObj, [animationEnabled |-> "true"], [animationEnabled |-> "false"] }
    IN { [k \in DOMAIN s \cup DOMAIN a |-> IF k \in DOMAIN s THEN s[k] ELSE a[k]] :
            s \in SavedSkins, a \in anims }

\* the page before DOMContentLoaded, over the storage st
PageLoading(st) ==
    /\ localStorage = st
    /\ statusText = MsgNone
    /\ fetchSkinBtn = [disabled |-> FALSE]
    /\ animationToggle = [checked |-> TRUE]
    /\ viewer = [constructed |-> FALSE, skin |-> "", animation |-> FALSE]
    /\ page = "loading"
    /\ restore = [pc |-> "idle", savedSkin |-> ""]
    /\ fetches = [f \in FetchIds |-> IdleFetch]
    /\ uploads = [u \in UploadIds |-> IdleUpload]
    /\ lastRun = NoRun

Init == \E st \in SavedStorages : PageLoading(st)

\* the operations in flight; a new one starts only below the bound
InFlight ==
    Cardinality({f \in FetchIds : fetches[f].pc # "idle"})
      + Cardinality({u \in UploadIds : uploads[u].pc # "idle"})
      + (IF restore.pc = "loading" THEN 1 ELSE 0)

\* ------------------------------------------------------------------ startup
\* lines 102-153 up to the first await, then wireEvents (lines 280-283).
\* constructed is whether new skinview3d.SkinViewer returns; when it throws,
\* viewer stays unset, initializeViewer's promise rejects and the events are
\* wired all the same.
initializeViewer(constructed) ==
    IF ~constructed
    THEN /\ restore' = [pc |-> "done", savedSkin |-> ""]
         /\ UNCHANGED <<viewer, animationToggle, statusText>>
    ELSE LET animationEnabled ==
                 ~(HasItem(localStorage, "animationEnabled")
                   /\ localStorage["animationEnabled"] = "false")
             hasSaved == HasItem(localStorage, "currentSkin")
                         /\ localStorage["currentSkin"] # ""
         IN /\ viewer' = [constructed |-> TRUE, skin |-> "", animation |-> animationEnabled]
            /\ animationToggle' = [checked |-> animationEnabled]
            /\ IF hasSaved
               THEN /\ restore' = [pc |-> "loading",
                                   savedSkin |-> localStorage["currentSkin"]]
                    /\ UNCHANGED statusText
               ELSE /\ restore' = [pc |-> "done", savedSkin |-> ""]
                    /\ statusText' = MsgReady

DOMContentLoaded ==
    /\ page = "loading"
    /\ \E constructed \in BOOLEAN : initializeViewer(constructed)
    /\ page' = "wired"
    /\ UNCHANGED <<localStorage, fetchSkinBtn, fetches, uploads>>

\* lines 138-149: viewer.loadSkin(savedSkin) settles
RestoreSettled(loaded) ==
    /\ restore.pc = "loading"
    /\ restore' = [restore EXCEPT !.pc = "done"]
    /\ IF loaded
       THEN /\ viewer' = [viewer EXCEPT !.skin = restore.savedSkin]
            /\ statusText' =
                 IF HasItem(localStorage, "currentPlayerName")
                    /\ localStorage["currentPlayerName"] # <<>>
                 THEN MsgSavedFor(localStorage["currentPlayerName"])
                 ELSE MsgSaved
            /\ UNCHANGED localStorage
       ELSE /\ statusText' = MsgReady
            /\ localStorage' = ClearSavedSkin(localStorage)
            /\ UNCHANGED viewer
    /\ UNCHANGED <<fetchSkinBtn, animationToggle, page, fetches, uploads>>

RestoreLoadSkinSettled == \E loaded \in BOOLEAN : RestoreSettled(loaded)

\* -------------------------------------------------------------------- fetch
\* the record a new invocation takes: the lowest one not in use
FreeFetchIds == {f \in FetchIds : fetches[f].pc = "idle"}
NewFetchId == CHOOSE f \in FreeFetchIds : \A g \in FreeFetchIds : f <= g

\* the return of an invocation without the finally block of line 98
FinishNoFinally(f, message) ==
    /\ fetches' = [fetches EXCEPT ![f] = IdleFetch]
    /\ statusText' = message
    /\ UNCHANGED fetchSkinBtn

\* the return of an invocation: the last setStatus, then the finally block
\* (line 98); the locals of the invocation are gone with it
Finish(f, message) ==
    /\ fetches' = [fetches EXCEPT ![f] = IdleFetch]
    /\ statusText' = message
    /\ fetchSkinBtn' = [disabled |-> FALSE]

\* lines 16-39 and 56-60: fetchSkinFromMojang up to its first await
fetchSkinFromMojang(usernameOrUUID) ==
    LET input == Trim(usernameOrUUID) IN
    IF ~viewer.constructed
    THEN /\ statusText' = MsgStarting
         /\ UNCHANGED <<fetchSkinBtn, fetches>>
    ELSE IF input = <<>>
    THEN /\ statusText' = MsgEnterName
         /\ UNCHANGED <<fetchSkinBtn, fetches>>
    ELSE /\ InFlight < MaxInFlight
         /\ fetchSkinBtn' = [disabled |-> TRUE]
         /\ statusText' = MsgFetching
         /\ LET f == NewFetchId
                started == [IdleFetch EXCEPT !.input = input, !.uuid = input,
                                             !.playerName = input]
            IN fetches' = [fetches EXCEPT ![f] =
                 IF ~LooksLikeUUID(input)
                 THEN [started EXCEPT !.pc = "nameFetch",
                                      !.calls = <<Call("name", input)>>]
                 ELSE [started EXCEPT !.pc = "sessionFetch",
                                      !.uuid = RemoveDashes(input),
                                      !.calls = <<Call("profile", RemoveDashes(input))>>]]

\* lines 250-252: a disabled button dispatches no click
FetchButtonClick(text) ==
    /\ page = "wired"
    /\ ~fetchSkinBtn.disabled
    /\ fetchSkinFromMojang(text)
    /\ UNCHANGED <<localStorage, animationToggle, viewer, page, restore, uploads>>

\* lines 254-258
SearchEnterKey(text) ==
    /\ page = "wired"
    /\ fetchSkinFromMojang(text)
    /\ UNCHANGED <<localStorage, animationToggle, viewer, page, restore, uploads>>

\* the name lookup settles, the return of line 47 missing
NameFetchSettledNoReturn(f, r) ==
    /\ fetches[f].pc = "nameFetch"
    /\ IF r.rejected
       THEN Finish(f, MsgFetchError)
       ELSE /\ fetches' = [fetches EXCEPT ![f].pc = "nameJson",
                                          ![f].nameStatus = r.status]
            /\ IF Ok(r) THEN UNCHANGED statusText
               ELSE statusText' = (IF r.status = 404 THEN MsgNotFound(fetches[f].input)
                                                     ELSE MsgProfileFailed)
            /\ UNCHANGED fetchSkinBtn
    /\ UNCHANGED <<localStorage, animationToggle, viewer, page, restore, uploads>>

\* the name lookup settles, the 404 test of line 42 missing
NameFetchSettledNo404(f, r) ==
    /\ fetches[f].pc = "nameFetch"
    /\ IF r.rejected
       THEN Finish(f, MsgFetchError)
       ELSE IF ~Ok(r)
       THEN Finish(f, MsgProfileFailed)
       ELSE /\ fetches' = [fetches EXCEPT ![f].pc = "nameJson",
                                          ![f].nameStatus = r.status]
            /\ UNCHANGED <<statusText, fetchSkinBtn>>
    /\ UNCHANGED <<localStorage, animationToggle, viewer, page, restore, uploads>>

\* lines 39-50: the name lookup settles
NameFetchSettled(f, r) ==
    /\ fetches[f].pc = "nameFetch"
    /\ IF r.rejected
       THEN Finish(f, MsgFetchError)
       ELSE IF ~Ok(r)
       THEN Finish(f, IF r.status = 404 THEN MsgNotFound(fetches[f].input)
                                        ELSE MsgProfileFailed)
       ELSE /\ fetches' = [fetches EXCEPT ![f].pc = "nameJson",
                                          ![f].nameStatus = r.status]
            /\ UNCHANGED <<statusText, fetchSkinBtn>>
    /\ UNCHANGED <<localStorage, animationToggle, viewer, page, restore, uploads>>

\* lines 50-60: the body of the name lookup settles, the profile call is issued
NameJsonSettled(f, body) ==
    /\ fetches[f].pc = "nameJson"
    /\ IF ~body.valid
       THEN Finish(f, MsgFetchError)
       ELSE LET id == Field(body.obj, "id")
                rec == [fetches[f] EXCEPT !.uuid = id,
                                          !.playerName = Field(body.obj, "name")]
            IN IF id = Undefined
               THEN Finish(f, MsgFetchError)
               ELSE /\ fetches' = [fetches EXCEPT ![f] =
                         [rec EXCEPT !.pc = "sessionFetch",
                                     !.uuid = RemoveDashes(id),
                                     !.calls = Append(rec.calls,
                                                      Call("profile", RemoveDashes(id)))]]
                    /\ UNCHANGED <<statusText, fetchSkinBtn>>
    /\ UNCHANGED <<localStorage, animationToggle, viewer, page, restore, uploads>>

\* lines 60-67: the profile call settles
SessionFetchSettled(f, r) ==
    /\ fetches[f].pc = "sessionFetch"
    /\ IF r.rejected
       THEN Finish(f, MsgFetchError)
       ELSE IF ~Ok(r)
       THEN Finish(f, MsgSkinDataFailed)
       ELSE /\ fetches' = [fetches EXCEPT ![f].pc = "sessionJson"]
            /\ UNCHANGED <<statusText, fetchSkinBtn>>
    /\ UNCHANGED <<localStorage, animationToggle, viewer, page, restore, uploads>>

\* the same with the catch block of lines 94-96 missing: a thrown error leaves
\* the status as it is and only the finally block runs
SessionJsonSettledNoCatch(f, body) ==
    /\ fetches[f].pc = "sessionJson"
    /\ LET got == DecodeSession(body, fetches[f].playerName)
           rec == [fetches[f] EXCEPT !.playerName = got.playerName]
       IN CASE got.kind = "threw" -> Finish(f, statusText)
            [] got.kind = "noData" -> Finish(f, MsgNoSkinData)
            [] got.kind = "noSkin" -> Finish(f, MsgNoSkin)
            [] got.kind = "load" ->
                 /\ fetches' = [fetches EXCEPT ![f] =
                      [rec EXCEPT !.pc = "loadSkin", !.skinUrl = got.skinUrl,
                                  !.loads = rec.loads + 1]]
                 /\ UNCHANGED <<statusText, fetchSkinBtn>>
    /\ UNCHANGED <<localStorage, animationToggle, viewer, page, restore, uploads>>

\* lines 67-86: the body of the profile call settles
SessionJsonSettled(f, body) ==
    /\ fetches[f].pc = "sessionJson"
    /\ LET got == DecodeSession(body, fetches[f].playerName)
           rec == [fetches[f] EXCEPT !.playerName = got.playerName]
       IN CASE got.kind = "threw" -> Finish(f, MsgFetchError)
            [] got.kind = "noData" -> Finish(f, MsgNoSkinData)
            [] got.kind = "noSkin" -> Finish(f, MsgNoSkin)
            [] got.kind = "load" ->
                 /\ fetches' = [fetches EXCEPT ![f] =
                      [rec EXCEPT !.pc = "loadSkin", !.skinUrl = got.skinUrl,
                                  !.loads = rec.loads + 1]]
                 /\ UNCHANGED <<statusText, fetchSkinBtn>>
    /\ UNCHANGED <<localStorage, animationToggle, viewer, page, restore, uploads>>

\* viewer.loadSkin(skinUrl) settles, with a shortcut when the URL is the one
\* already stored: nothing is written and the saved-skin message is shown
FetchLoadSettledSkipsStored(f, loaded) ==
    /\ fetches[f].pc = "loadSkin"
    /\ IF loaded
       THEN /\ viewer' = [viewer EXCEPT !.skin = fetches[f].skinUrl]
            /\ IF HasItem(localStorage, "currentSkin")
                  /\ localStorage["currentSkin"] = fetches[f].skinUrl
               THEN /\ UNCHANGED localStorage
                    /\ Finish(f, MsgSaved)
               ELSE /\ localStorage' = StoreFetchedSkin(localStorage, fetches[f].skinUrl,
                                                        fetches[f].playerName)
                    /\ Finish(f, MsgLoadedFor(fetches[f].playerName))
       ELSE /\ Finish(f, MsgFetchError)
            /\ UNCHANGED <<viewer, localStorage>>
    /\ UNCHANGED <<animationToggle, page, restore, uploads>>

\* viewer.loadSkin(skinUrl) settles, lines 89-90 placed before the await
FetchLoadSettledStoredFirst(f, loaded) ==
    /\ fetches[f].pc = "loadSkin"
    /\ localStorage' =
         StoreFetchedSkin(localStorage, fetches[f].skinUrl, fetches[f].playerName)
    /\ IF loaded
       THEN /\ viewer' = [viewer EXCEPT !.skin = fetches[f].skinUrl]
            /\ Finish(f, MsgLoadedFor(fetches[f].playerName))
       ELSE /\ Finish(f, MsgFetchError)
            /\ UNCHANGED viewer
    /\ UNCHANGED <<animationToggle, page, restore, uploads>>

\* lines 86-99: viewer.loadSkin(skinUrl) settles
FetchLoadSettled(f, loaded) ==
    /\ fetches[f].pc = "loadSkin"
    /\ IF loaded
       THEN /\ viewer' = [viewer EXCEPT !.skin = fetches[f].skinUrl]
            /\ localStorage' =
                 StoreFetchedSkin(localStorage, fetches[f].skinUrl, fetches[f].playerName)
            /\ Finish(f, MsgLoadedFor(fetches[f].playerName))
       ELSE /\ Finish(f, MsgFetchError)
            /\ UNCHANGED <<viewer, localStorage>>
    /\ UNCHANGED <<animationToggle, page, restore, uploads>>

\* the steps of the resolutions in flight
Click(texts) == \E text \in texts : FetchButtonClick(text)
EnterKey(texts) == \E text \in texts : SearchEnterKey(text)
NameFetchDone == \E f \in FetchIds, r \in HttpResults : NameFetchSettled(f, r)
NameJsonDone == \E f \in FetchIds, i \in DOMAIN NameBodies : NameJsonSettled(f, NameBodies[i])
SessionFetchDone == \E f \in FetchIds, r \in HttpResults : SessionFetchSettled(f, r)
SessionJsonDone ==
    \E f \in FetchIds, i \in DOMAIN SessionBodies : SessionJsonSettled(f, SessionBodies[i])
FetchLoadSkinDone == \E f \in FetchIds, loaded \in BOOLEAN : FetchLoadSettled(f, loaded)

\* ------------------------------------------------------------------- upload
FreeUploadIds == {u \in UploadIds : uploads[u].pc = "idle"}
NewUploadId == CHOOSE u \in FreeUploadIds : \A w \in FreeUploadIds : u <= w

\* lines 155-200: validation, then reader.readAsDataURL(file)
readSkinFile(file) ==
    IF ~viewer.constructed
    THEN statusText' = MsgStarting /\ UNCHANGED uploads
    ELSE IF ~IsPNG(file)
    THEN statusText' = MsgNotPNG /\ UNCHANGED uploads
    ELSE IF TooLarge(file)
    THEN statusText' = MsgTooLarge /\ UNCHANGED uploads
    ELSE /\ InFlight < MaxInFlight
         /\ statusText' = MsgLoadingFile
         /\ uploads' = [uploads EXCEPT ![NewUploadId] =
                          [IdleUpload EXCEPT !.pc = "reading", !.skinData = DataURL(file)]]

\* lines 202-208; files[0] of a non-empty list is a file, so the !file test of
\* line 160 never returns
handleFiles(files) ==
    IF Len(files) = 0
    THEN statusText' = MsgNoFile /\ UNCHANGED uploads
    ELSE readSkinFile(files[1])

\* lines 211-214
FileInputChange(files) ==
    /\ page = "wired"
    /\ handleFiles(files)
    /\ UNCHANGED <<localStorage, fetchSkinBtn, animationToggle, viewer, page, restore,
                   fetches>>

\* lines 236-240
DropZoneDrop(files) ==
    /\ page = "wired"
    /\ handleFiles(files)
    /\ UNCHANGED <<localStorage, fetchSkinBtn, animationToggle, viewer, page, restore,
                   fetches>>

\* lines 176-179: the reader's load event, up to await viewer.loadSkin(skinData)
ReaderLoad(u) ==
    /\ uploads[u].pc = "reading"
    /\ uploads' = [uploads EXCEPT ![u].pc = "loadSkin", ![u].loads = uploads[u].loads + 1]
    /\ UNCHANGED <<localStorage, statusText, fetchSkinBtn, animationToggle, viewer, page,
                   restore, fetches>>

\* lines 195-197: the reader's error event
ReaderError(u) ==
    /\ uploads[u].pc = "reading"
    /\ uploads' = [uploads EXCEPT ![u] = IdleUpload]
    /\ statusText' = MsgCouldNotRead
    /\ UNCHANGED <<localStorage, fetchSkinBtn, animationToggle, viewer, page, restore,
                   fetches>>

\* lines 179-192: viewer.loadSkin(skinData) settles
UploadLoadSettled(u, loaded) ==
    /\ uploads[u].pc = "loadSkin"
    /\ uploads' = [uploads EXCEPT ![u] = IdleUpload]
    /\ IF loaded
       THEN /\ viewer' = [viewer EXCEPT !.skin = uploads[u].skinData]
            /\ localStorage' = StoreUploadedSkin(localStorage, uploads[u].skinData)
            /\ statusText' = MsgSkinLoaded
       ELSE /\ statusText' = MsgFileWrong
            /\ UNCHANGED <<viewer, localStorage>>
    /\ UNCHANGED <<fetchSkinBtn, animationToggle, page, restore, fetches>>

FileChange == \E files \in FileLists : FileInputChange(files)
FileDrop == \E files \in FileLists : DropZoneDrop(files)
ReaderLoadEvent == \E u \in UploadIds : ReaderLoad(u)
ReaderErrorEvent == \E u \in UploadIds : ReaderError(u)
UploadLoadSkinDone == \E u \in UploadIds, loaded \in BOOLEAN : UploadLoadSettled(u, loaded)

\* ---------------------------------------------------------------- animation
\* String(isEnabled), as localStorage.setItem stores it
BoolStr(b) == IF b THEN "true" ELSE "false"

\* the change event without line 276
AnimationToggleChangeNoSave ==
    /\ page = "wired"
    /\ LET isEnabled == ~animationToggle.checked IN
       /\ animationToggle' = [checked |-> isEnabled]
       /\ IF ~viewer.constructed
          THEN UNCHANGED viewer
          ELSE viewer' = [viewer EXCEPT !.animation = isEnabled]
    /\ UNCHANGED <<localStorage, statusText, fetchSkinBtn, page, restore, fetches, uploads>>

\* lines 261-277: the user flips the checkbox and its change event runs
AnimationToggleChange ==
    /\ page = "wired"
    /\ LET isEnabled == ~animationToggle.checked IN
       /\ animationToggle' = [checked |-> isEnabled]
       /\ IF ~viewer.constructed
          THEN UNCHANGED <<viewer, localStorage>>
          ELSE /\ viewer' = [viewer EXCEPT !.animation = isEnabled]
               /\ localStorage' = SetItem(localStorage, "animationEnabled", BoolStr(isEnabled))
    /\ UNCHANGED <<statusText, fetchSkinBtn, page, restore, fetches, uploads>>

\* a reload of the page: the document and the script's variables (lines 1-9)
\* start afresh, the operations in flight are dropped with the old document
\* and local storage is kept
Reload ==
    /\ page = "wired"
    /\ page' = "loading"
    /\ statusText' = MsgNone
    /\ fetchSkinBtn' = [disabled |-> FALSE]
    /\ animationToggle' = [checked |-> TRUE]
    /\ viewer' = [constructed |-> FALSE, skin |-> "", animation |-> FALSE]
    /\ restore' = [pc |-> "idle", savedSkin |-> ""]
    /\ fetches' = [f \in FetchIds |-> IdleFetch]
    /\ uploads' = [u \in UploadIds |-> IdleUpload]
    /\ UNCHANGED localStorage

\* ------------------------------------------------------------ specification
Next ==
    \/ DOMContentLoaded /\ UNCHANGED lastRun
    \/ RestoreLoadSkinSettled /\ UNCHANGED lastRun
    \/ Click(SearchTexts) /\ UNCHANGED lastRun
    \/ EnterKey(SearchTexts) /\ UNCHANGED lastRun
    \/ NameFetchDone /\ UNCHANGED lastRun
    \/ NameJsonDone /\ UNCHANGED lastRun
    \/ SessionFetchDone /\ UNCHANGED lastRun
    \/ SessionJsonDone /\ UNCHANGED lastRun
    \/ FetchLoadSkinDone /\ UNCHANGED lastRun
    \/ FileChange /\ UNCHANGED lastRun
    \/ FileDrop /\ UNCHANGED lastRun
    \/ ReaderLoadEvent /\ UNCHANGED lastRun
    \/ ReaderErrorEvent /\ UNCHANGED lastRun
    \/ UploadLoadSkinDone /\ UNCHANGED lastRun
    \/ AnimationToggleChange /\ UNCHANGED lastRun

Spec == Init /\ [][Next]_vars

\* The page of a visitor who has stored no animation preference and leaves
\* the animation checkbox alone: every handler but the checkbox's, which
\* reads and writes nothing the other handlers use.
InitSkin == \E st \in SavedSkins : PageLoading(st)

NextSkin ==
    \/ DOMContentLoaded /\ UNCHANGED lastRun
    \/ RestoreLoadSkinSettled /\ UNCHANGED lastRun
    \/ Click(SearchTexts) /\ UNCHANGED lastRun
    \/ EnterKey(SearchTexts) /\ UNCHANGED lastRun
    \/ NameFetchDone /\ UNCHANGED lastRun
    \/ NameJsonDone /\ UNCHANGED lastRun
    \/ SessionFetchDone /\ UNCHANGED lastRun
    \/ SessionJsonDone /\ UNCHANGED lastRun
    \/ FetchLoadSkinDone /\ UNCHANGED lastRun
    \/ FileChange /\ UNCHANGED lastRun
    \/ FileDrop /\ UNCHANGED lastRun
    \/ ReaderLoadEvent /\ UNCHANGED lastRun
    \/ ReaderErrorEvent /\ UNCHANGED lastRun
    \/ UploadLoadSkinDone /\ UNCHANGED lastRun

SpecSkin == InitSkin /\ [][NextSkin]_vars

\* The same page with resolutions started from the fetch button only, which
\* the script disables while one runs: Enter is pressed on a blank search box
\* only.  Uploads and the startup restore overlap with the resolution.
NextButton ==
    \/ DOMContentLoaded /\ UNCHANGED lastRun
    \/ RestoreLoadSkinSettled /\ UNCHANGED lastRun
    \/ Click(SearchTexts) /\ UNCHANGED lastRun
    \/ EnterKey(BlankTexts) /\ UNCHANGED lastRun
    \/ NameFetchDone /\ UNCHANGED lastRun
    \/ NameJsonDone /\ UNCHANGED lastRun
    \/ SessionFetchDone /\ UNCHANGED lastRun
    \/ SessionJsonDone /\ UNCHANGED lastRun
    \/ FetchLoadSkinDone /\ UNCHANGED lastRun
    \/ FileChange /\ UNCHANGED lastRun
    \/ FileDrop /\ UNCHANGED lastRun
    \/ ReaderLoadEvent /\ UNCHANGED lastRun
    \/ ReaderErrorEvent /\ UNCHANGED lastRun
    \/ UploadLoadSkinDone /\ UNCHANGED lastRun

SpecButton == InitSkin /\ [][NextButton]_vars

\* The resolver alone, driven from the fetch button on every search text of
\* EdgeTexts: the page starts, the saved skin is restored, and resolutions run;
\* no file is chosen, Enter is not pressed and the animation checkbox is left
\* alone.
NextResolver ==
    \/ DOMContentLoaded /\ UNCHANGED lastRun
    \/ RestoreLoadSkinSettled /\ UNCHANGED lastRun
    \/ Click(EdgeTexts) /\ UNCHANGED lastRun
    \/ NameFetchDone /\ UNCHANGED lastRun
    \/ NameJsonDone /\ UNCHANGED lastRun
    \/ SessionFetchDone /\ UNCHANGED lastRun
    \/ SessionJsonDone /\ UNCHANGED lastRun
    \/ FetchLoadSkinDone /\ UNCHANGED lastRun

SpecResolver == InitSkin /\ [][NextResolver]_vars

\* The animation preference over page visits: the page starts, the saved skin
\* is restored, the checkbox is flipped, files are uploaded and the page is
\* reloaded.  The first visit finds no stored preference, so every stored
\* preference is one the checkbox's handler wrote.
NextAnimation ==
    \/ DOMContentLoaded /\ UNCHANGED lastRun
    \/ RestoreLoadSkinSettled /\ UNCHANGED lastRun
    \/ AnimationToggleChange /\ UNCHANGED lastRun
    \/ FileChange /\ UNCHANGED lastRun
    \/ ReaderLoadEvent /\ UNCHANGED lastRun
    \/ ReaderErrorEvent /\ UNCHANGED lastRun
    \/ UploadLoadSkinDone /\ UNCHANGED lastRun
    \/ Reload /\ UNCHANGED lastRun

SpecAnimation == InitSkin /\ [][NextAnimation]_vars

\* The first visit, with nothing stored and so no startup load: the user's
\* fetches, started with the Enter key on a name or a UUID so that two may
\* overlap, and uploads race for the viewer and the two skin keys.
InitFirstVisit == PageLoading(EmptyObj)

NextRace ==
    \/ DOMContentLoaded /\ UNCHANGED lastRun
    \/ EnterKey(FetchTexts) /\ UNCHANGED lastRun
    \/ NameFetchDone /\ UNCHANGED lastRun
    \/ NameJsonDone /\ UNCHANGED lastRun
    \/ SessionFetchDone /\ UNCHANGED lastRun
    \/ SessionJsonDone /\ UNCHANGED lastRun
    \/ FetchLoadSkinDone /\ UNCHANGED lastRun
    \/ FileChange /\ UNCHANGED lastRun
    \/ ReaderLoadEvent /\ UNCHANGED lastRun
    \/ ReaderErrorEvent /\ UNCHANGED lastRun
    \/ UploadLoadSkinDone /\ UNCHANGED lastRun

SpecRace == InitFirstVisit /\ [][NextRace]_vars

\* Resolutions in succession against upstream data that does not change: what
\* the proxy answers depends on the request alone, and so does what the
\* viewer makes of a texture URL.  Each user name below has answers of its own.
\* The answer to the name lookup of line 39, by the name asked for:
StableNameLookup(input) ==
    CASE input = TypedName -> [result |-> Http(200), body |-> NameBodies[3]]
      [] input = SteveName -> [result |-> Http(200), body |-> NameBodies[2]]
      [] input = AlexName  -> [result |-> Http(200), body |-> NameBodies[4]]
      [] input = GhostName -> [result |-> Http(404), body |-> NameBodies[1]]
      [] input = Hex31G    -> [result |-> Http(500), body |-> NameBodies[1]]
      [] OTHER             -> [result |-> Rejected, body |-> NameBodies[1]]

\* the answer to the profile call of line 60, by the UUID asked for
StableProfile(uuid) ==
    CASE uuid = Hex32Lower -> [result |-> Http(200), body |-> BodySkin2]
      [] uuid = RemoveDashes(DashedUpper) -> [result |-> Http(200), body |-> BodySkin1]
      [] OTHER -> [result |-> Http(500), body |-> BodyInvalid]

\* whether viewer.loadSkin resolves, by the URL it is given
StableLoadSkin(skinUrl) == skinUrl = "url2"

\* the texts typed in succession
SuccessionTexts ==
    { <<" ">> \o TypedName \o <<" ">>, SteveName, AlexName, GhostName, Hex31G, DashedUpper }

\* the history of the resolution f when this step ends it
RecordRun(f) ==
    lastRun' =
      IF fetches[f].pc # "idle" /\ fetches'[f].pc = "idle"
      THEN [input |-> fetches[f].input, calls |-> fetches[f].calls,
            status |-> statusText', keys |-> SkinKeysOf(localStorage'),
            again |-> lastRun.input = fetches[f].input]
      ELSE lastRun

StableNameFetchDone ==
    \E f \in FetchIds :
        NameFetchSettled(f, StableNameLookup(fetches[f].input).result) /\ RecordRun(f)

StableNameJsonDone ==
    \E f \in FetchIds :
        NameJsonSettled(f, StableNameLookup(fetches[f].input).body) /\ RecordRun(f)

StableSessionFetchDone ==
    \E f \in FetchIds :
        SessionFetchSettled(f, StableProfile(fetches[f].uuid).result) /\ RecordRun(f)

StableSessionJsonDone ==
    \E f \in FetchIds :
        SessionJsonSettled(f, StableProfile(fetches[f].uuid).body) /\ RecordRun(f)

StableFetchLoadSkinDone ==
    \E f \in FetchIds :
        FetchLoadSettled(f, StableLoadSkin(fetches[f].skinUrl)) /\ RecordRun(f)

\* The first visit with resolutions started from the fetch button, one after
\* the other, against the stable upstream.
NextSuccession ==
    \/ DOMContentLoaded /\ UNCHANGED lastRun
    \/ Click(SuccessionTexts) /\ UNCHANGED lastRun
    \/ StableNameFetchDone
    \/ StableNameJsonDone
    \/ StableSessionFetchDone
    \/ StableSessionJsonDone
    \/ StableFetchLoadSkinDone

SpecSuccession == InitFirstVisit /\ [][NextSuccession]_vars

\* The resolver on a first visit when every network call and every viewer
\* load of a resolution settles in the end: the step that settles what the
\* resolution f is waiting for is weakly fair.  The script sets no timeout, so
\* this is an assumption about the proxy and the viewer, not something the
\* script brings about.
Settles(f) ==
    /\ \/ \E r \in HttpResults : NameFetchSettled(f, r)
       \/ \E i \in DOMAIN NameBodies : NameJsonSettled(f, NameBodies[i])
       \/ \E r \in HttpResults : SessionFetchSettled(f, r)
       \/ \E i \in DOMAIN SessionBodies : SessionJsonSettled(f, SessionBodies[i])
       \/ \E loaded \in BOOLEAN : FetchLoadSettled(f, loaded)
    /\ UNCHANGED lastRun

NextLive ==
    \/ DOMContentLoaded /\ UNCHANGED lastRun
    \/ Click(FetchTexts) /\ UNCHANGED lastRun
    \/ EnterKey(FetchTexts) /\ UNCHANGED lastRun
    \/ NameFetchDone /\ UNCHANGED lastRun
    \/ NameJsonDone /\ UNCHANGED lastRun
    \/ SessionFetchDone /\ UNCHANGED lastRun
    \/ SessionJsonDone /\ UNCHANGED lastRun
    \/ FetchLoadSkinDone /\ UNCHANGED lastRun

SpecLive ==
    /\ InitFirstVisit
    /\ [][NextLive]_vars
    /\ \A f \in FetchIds : WF_vars(Settles(f))

\* Everything that writes or removes a key of local storage, interleaved: the
\* startup restore of a saved skin, resolutions started from the fetch button,
\* uploads and the animation checkbox.  (Resolutions that overlap each other
\* are in SpecRace.)
NextKeys ==
    \/ DOMContentLoaded /\ UNCHANGED lastRun
    \/ RestoreLoadSkinSettled /\ UNCHANGED lastRun
    \/ Click(FetchTexts) /\ UNCHANGED lastRun
    \/ NameFetchDone /\ UNCHANGED lastRun
    \/ NameJsonDone /\ UNCHANGED lastRun
    \/ SessionFetchDone /\ UNCHANGED lastRun
    \/ SessionJsonDone /\ UNCHANGED lastRun
    \/ FetchLoadSkinDone /\ UNCHANGED lastRun
    \/ FileChange /\ UNCHANGED lastRun
    \/ ReaderLoadEvent /\ UNCHANGED lastRun
    \/ ReaderErrorEvent /\ UNCHANGED lastRun
    \/ UploadLoadSkinDone /\ UNCHANGED lastRun
    \/ AnimationToggleChange /\ UNCHANGED lastRun

SpecKeys == InitSkin /\ [][NextKeys]_vars

\* =================================================================== claims
InFlightFetches == {f \in FetchIds : fetches[f].pc # "idle"}
Kinds(calls) == [i \in DOMAIN calls |-> calls[i].kind]

\* C1: while a resolution that has passed input validation is in flight, the
\* fetch button is disabled, and at most one resolution is in flight, whatever
\* clicks and Enter key presses started them.
C1_ButtonDisabledWhileFetching ==
    /\ Cardinality(InFlightFetches) <= 1
    /\ InFlightFetches # {} => fetchSkinBtn.disabled

\* C2: a fetch or an upload that ends with an error leaves local storage as it
\* was, and the two skin keys are written only in the step in which
\* viewer.loadSkin has resolved for the source that is stored (the one other
\* change being the startup restore clearing them).
C2_FetchWrites(f) ==
    /\ fetches[f].pc = "loadSkin"
    /\ fetches'[f].pc = "idle"
    /\ ~statusText'.isError
    /\ viewer'.skin = fetches[f].skinUrl
    /\ HasItem(localStorage', "currentSkin")
    /\ localStorage'["currentSkin"] = fetches[f].skinUrl

C2_UploadWrites(u) ==
    /\ uploads[u].pc = "loadSkin"
    /\ uploads'[u].pc = "idle"
    /\ ~statusText'.isError
    /\ viewer'.skin = uploads[u].skinData
    /\ HasItem(localStorage', "currentSkin")
    /\ localStorage'["currentSkin"] = uploads[u].skinData

C2_RestoreClears ==
    /\ restore.pc = "loading"
    /\ restore'.pc = "done"
    /\ SkinKeysOf(localStorage') = EmptyObj

C2_FailedLoadLeavesStorage ==
    [][ /\ (/\ statusText'.isError
            /\ \/ \E f \in FetchIds : fetches[f].pc # "idle" /\ fetches'[f].pc = "idle"
               \/ \E u \in UploadIds : uploads[u].pc # "idle" /\ uploads'[u].pc = "idle")
           => localStorage' = localStorage
        /\ SkinKeysOf(localStorage') # SkinKeysOf(localStorage)
           => \/ \E f \in FetchIds : C2_FetchWrites(f)
              \/ \E u \in UploadIds : C2_UploadWrites(u)
              \/ C2_RestoreClears ]_vars

\* the viewer has rejected an uploaded image and the skin saved before is
\* still stored with its player name
C2_Witness ==
    /\ statusText = MsgFileWrong
    /\ HasItem(localStorage, "currentSkin") /\ localStorage["currentSkin"] = "url1"
    /\ HasItem(localStorage, "currentPlayerName")
    /\ localStorage["currentPlayerName"] = NameA

\* the search texts that match the 32-hex or the dashed pattern once trimmed
UuidInputs == {Hex32Mixed, DashedUpper, DashedLower}
\* the other non-empty ones
NameInputs == {TypedName, Hex31G}

\* C3: a resolution whose trimmed input matches the 32-hex or the dashed UUID
\* pattern, in either case, issues no name lookup: its only network call is
\* the profile-by-UUID call.
C3_UuidSkipsNameLookup ==
    \A f \in InFlightFetches :
        fetches[f].input \in UuidInputs
            => /\ Kinds(fetches[f].calls) = <<"profile">>
               /\ fetches[f].pc \in {"sessionFetch", "sessionJson", "loadSkin"}
               /\ fetches[f].nameStatus = 0

\* resolutions of a padded mixed-case 32-hex text and of a dashed text have
\* reached the viewer
C3_Witness ==
    \E f \in InFlightFetches :
        /\ fetches[f].input = Hex32Mixed
        /\ fetches[f].pc = "loadSkin"

\* C4: a resolution of any other non-empty input issues the name lookup first
\* and once, issues the profile call only after the name lookup has returned
\* successfully, and never issues more than these two calls.
C4_OneNameLookupThenProfile ==
    \A f \in InFlightFetches :
        /\ Len(fetches[f].calls) <= 2
        /\ fetches[f].input \in NameInputs
            => /\ fetches[f].calls[1] = Call("name", fetches[f].input)
               /\ fetches[f].pc = "nameFetch"
                    => Len(fetches[f].calls) = 1 /\ fetches[f].nameStatus = 0
               /\ fetches[f].pc = "nameJson"
                    => Len(fetches[f].calls) = 1 /\ fetches[f].nameStatus = 200
               /\ fetches[f].pc \in {"sessionFetch", "sessionJson", "loadSkin"}
                    => /\ Kinds(fetches[f].calls) = <<"name", "profile">>
                       /\ fetches[f].nameStatus = 200

\* the resolution of a 32-character text that is not hexadecimal has issued
\* both calls
C4_Witness ==
    \E f \in InFlightFetches :
        /\ fetches[f].input = Hex31G
        /\ fetches[f].pc = "loadSkin"
        /\ Len(fetches[f].calls) = 2

\* C5: when the name lookup returns 404 the status is the "not found" message;
\* when it returns another non-success status the status is a different,
\* generic message; either way the resolution ends there, having issued no
\* profile call and no viewer.loadSkin call, and the viewer is unchanged.
C5_NameLookupFailure ==
    [][ \A f \in FetchIds : \A code \in {404, 500} :
          NameFetchSettled(f, Http(code))
            => /\ statusText' = (IF code = 404 THEN MsgNotFound(fetches[f].input)
                                               ELSE MsgProfileFailed)
               /\ MsgProfileFailed # MsgNotFound(fetches[f].input)
               /\ fetches'[f].pc = "idle"
               /\ Kinds(fetches[f].calls) = <<"name">>
               /\ fetches[f].loads = 0
               /\ viewer' = viewer ]_vars

\* the "not found" message is shown for the typed name
C5_Witness == statusText = MsgNotFound(TypedName)

\* C6: a textures property whose decoded descriptor has no skin URL (no
\* textures object, no SKIN entry, no url, an empty url) ends the resolution
\* with the "no skin found" message, without a viewer.loadSkin call and
\* without a write to local storage.
C6_NoSkinUrlMessage ==
    [][ \A f \in FetchIds :
        \A body \in {BodyNoTexturesObject, BodyNoSkinEntry, BodyNoUrl, BodyEmptyUrl} :
          SessionJsonSettled(f, body)
            => /\ statusText' = MsgNoSkin
               /\ fetches'[f].pc = "idle"
               /\ fetches[f].loads = 0
               /\ UNCHANGED <<viewer, localStorage>> ]_vars

\* C7: the resolution hands the viewer the URL of the first textures property
\* of the profile response and takes the player name from that response; when
\* the viewer has loaded it, currentSkin is that URL, currentPlayerName that
\* name, and the success message names the same player.
C7_StoresAuthoritativeName ==
    [][ \A f \in FetchIds :
        /\ \A body \in {BodySkin1, BodySkin2, BodyNoName} :
             SessionJsonSettled(f, body)
               => /\ fetches'[f].pc = "loadSkin"
                  /\ fetches'[f].playerName =
                       (IF "name" \in DOMAIN body.obj THEN body.obj.name ELSE Undefined)
                  /\ fetches'[f].skinUrl = (IF body = BodySkin2 THEN "url2" ELSE "url1")
        /\ FetchLoadSettled(f, TRUE)
             => /\ localStorage'["currentSkin"] = fetches[f].skinUrl
                /\ localStorage'["currentPlayerName"] = ToStr(fetches[f].playerName)
                /\ statusText' = MsgLoadedFor(fetches[f].playerName)
                /\ ~statusText'.isError ]_vars

\* a skin fetched by the typed name is stored under the name of the profile
\* response, which is neither the typed text nor the name of the name lookup
C7_Witness ==
    /\ statusText = MsgLoadedFor(NameB)
    /\ HasItem(localStorage, "currentSkin") /\ localStorage["currentSkin"] = "url2"
    /\ HasItem(localStorage, "currentPlayerName")
    /\ localStorage["currentPlayerName"] = NameB
    /\ NameB # TypedName /\ NameB # NameA

\* the files of the claim: at most 5 MiB, of PNG type or with a .png suffix
C8_Accepted(file) ==
    /\ file.size <= 5 * 1024 * 1024
    /\ file.type = "image/png" \/ file.name = PngName

\* C8: such a file is read, whichever control delivered it, and once the
\* viewer has loaded its data URL, currentSkin is that data URL and
\* currentPlayerName is absent.
C8_UploadStoresSkinWithoutName ==
    [][ /\ \A files \in FileLists :
             (Len(files) > 0 /\ C8_Accepted(files[1])
               /\ (FileInputChange(files) \/ DropZoneDrop(files)) /\ viewer.constructed)
             => \E u \in UploadIds :
                  /\ uploads[u].pc = "idle"
                  /\ uploads'[u].pc = "reading"
                  /\ uploads'[u].skinData = files[1].data
        /\ \A u \in UploadIds :
             UploadLoadSettled(u, TRUE)
               => /\ localStorage'["currentSkin"] = uploads[u].skinData
                  /\ ~HasItem(localStorage', "currentPlayerName")
                  /\ viewer'.skin = uploads[u].skinData ]_vars

\* an uploaded skin is stored without a player name
C8_Witness ==
    /\ statusText = MsgSkinLoaded
    /\ HasItem(localStorage, "currentSkin") /\ localStorage["currentSkin"] = "data1"
    /\ ~HasItem(localStorage, "currentPlayerName")
    /\ viewer.skin = "data1"

\* the files of the claim: neither of PNG type nor named with a .png suffix,
\* or over 5 MiB
C9_Rejected(file) ==
    \/ file.type # "image/png" /\ file.name \in {UpperName, ShortName}
    \/ file.size > 5 * 1024 * 1024

\* C9: an empty or whitespace-only search text, a file that is not a PNG and
\* a file over 5 MiB are turned away with an error status and nothing else: no
\* network call, no file read, no viewer call, no write to local storage, and
\* the fetch button is not disabled.
C9_ValidationBeforeIO ==
    [][ /\ \A text \in {<<>>, <<" ", "\t">>} :
             (FetchButtonClick(text) \/ SearchEnterKey(text))
               => /\ statusText'.isError
                  /\ UNCHANGED <<fetches, fetchSkinBtn, viewer, localStorage, uploads>>
        /\ \A files \in FileLists :
             (Len(files) > 0 /\ C9_Rejected(files[1])
               /\ (FileInputChange(files) \/ DropZoneDrop(files)))
               => /\ statusText'.isError
                  /\ UNCHANGED <<fetches, fetchSkinBtn, viewer, localStorage, uploads>> ]_vars

\* the size error is shown while a skin is stored and nothing is in flight
C9_Witness ==
    /\ statusText = MsgTooLarge
    /\ HasItem(localStorage, "currentSkin")
    /\ InFlight = 0

\* C10: when the viewer fails to load the stored skin at startup, both skin
\* keys are removed and the "ready" message is shown; when it loads it, local
\* storage is left as it is.
C10_RestoreFailureClearsStorage ==
    [][ /\ RestoreSettled(FALSE)
             => /\ ~HasItem(localStorage', "currentSkin")
                /\ ~HasItem(localStorage', "currentPlayerName")
                /\ statusText' = MsgReady
        /\ RestoreSettled(TRUE)
             => /\ localStorage' = localStorage
                /\ viewer'.skin = restore.savedSkin ]_vars

\* the restore of a skin stored with a player name has failed
C10_Witness ==
    /\ restore = [pc |-> "done", savedSkin |-> "url1"]
    /\ statusText = MsgReady
    /\ SkinKeysOf(localStorage) = EmptyObj

\* line 120 on a storage: whether a page start over it enables the animation
StartsEnabled(st) == ~(HasItem(st, "animationEnabled") /\ st["animationEnabled"] = "false")

\* the stored preference, the checkbox and the viewer's animation agree with
\* the checkbox state the last change event delivered
C11_Agree ==
    /\ HasItem(localStorage, "animationEnabled")
    /\ localStorage["animationEnabled"] = BoolStr(animationToggle.checked)
    /\ viewer.animation = animationToggle.checked

\* the step that starts a page over the storage the previous page left
C11_PageStart ==
    /\ DOMContentLoaded /\ viewer'.constructed
         => /\ viewer'.animation = StartsEnabled(localStorage)
            /\ animationToggle'.checked = StartsEnabled(localStorage)
            /\ ~HasItem(localStorage, "animationEnabled") => viewer'.animation

C12_FetchCaught(f) ==
    /\ statusText' = MsgFetchError
    /\ statusText'.isError
    /\ fetches'[f] = IdleFetch
    /\ ~fetchSkinBtn'.disabled

\* the messages a fetch or an upload ends with
C12_FinalMessages ==
    { MsgProfileFailed, MsgSkinDataFailed, MsgNoSkinData, MsgNoSkin, MsgFetchError,
      MsgFileWrong, MsgCouldNotRead, MsgSkinLoaded }
      \cup { MsgNotFound(t) : t \in {Trim(x) : x \in SearchTexts} }
      \cup { MsgLoadedFor(n) : n \in {NameA, NameB, Undefined} }

\* C12: a rejected network call, a response body that is not JSON, a name
\* lookup without an id, a profile response without a properties list, a
\* textures value that does not decode, a rejection by the viewer and a
\* file-reader error each end the handler in the same step with an error status
\* shown; and every fetch or upload that ends, ends with one of its final
\* messages shown, so no error leaves a handler uncaught.
C12_FailuresBecomeStatus ==
    [][ /\ \A f \in FetchIds :
             /\ NameFetchSettled(f, Rejected) => C12_FetchCaught(f)
             /\ SessionFetchSettled(f, Rejected) => C12_FetchCaught(f)
             /\ (NameJsonSettled(f, NameBodies[1]) \/ NameJsonSettled(f, NameBodies[4]))
                  => C12_FetchCaught(f)
             /\ \A body \in {BodyInvalid, BodyNoProperties, BodyNotBase64, BodyNotJson} :
                  SessionJsonSettled(f, body) => C12_FetchCaught(f)
             /\ FetchLoadSettled(f, FALSE) => C12_FetchCaught(f)
             /\ (fetches[f].pc # "idle" /\ fetches'[f].pc = "idle")
                  => statusText' \in C12_FinalMessages
        /\ \A u \in UploadIds :
             /\ UploadLoadSettled(u, FALSE)
                  => statusText' = MsgFileWrong /\ statusText'.isError
                     /\ uploads'[u] = IdleUpload
             /\ ReaderError(u)
                  => statusText' = MsgCouldNotRead /\ statusText'.isError
                     /\ uploads'[u] = IdleUpload
             /\ (uploads[u].pc # "idle" /\ uploads'[u].pc = "idle")
                  => statusText' \in C12_FinalMessages ]_vars

\* a resolution has failed on the first visit's page: the generic fetch error
\* is shown, the button is enabled again and nothing is in flight
C12_Witness ==
    /\ statusText = MsgFetchError
    /\ ~fetchSkinBtn.disabled
    /\ InFlight = 0
    /\ viewer.skin = ""
    /\ restore.pc = "done"

\* the (skin, player name) pairs one successful action writes: a fetch writes
\* the URL and the name of one profile response, an upload the data URL and
\* no name
C13_WrittenTogether(st) ==
    /\ HasItem(st, "currentSkin")
    /\ IF HasItem(st, "currentPlayerName")
       THEN <<st["currentSkin"], st["currentPlayerName"]>>
              \in { <<"url1", NameA>>, <<"url2", NameB>>, <<"url1", ToStr(Undefined)>> }
       ELSE st["currentSkin"] \in {"data1", "data2"}

C14_Idempotent ==
    [][ \A f \in FetchIds :
          (fetches[f].pc # "idle" /\ fetches'[f].pc = "idle"
             /\ lastRun.input = fetches[f].input)
            => /\ fetches[f].calls = lastRun.calls
               /\ statusText' = lastRun.status
               /\ SkinKeysOf(localStorage') = lastRun.keys ]_vars

\* the typed name has been resolved twice in succession and the skin of its
\* profile is stored
C14_Witness ==
    /\ lastRun.again
    /\ lastRun.input = TypedName
    /\ Len(lastRun.calls) = 2
    /\ lastRun.status = MsgLoadedFor(NameB)
    /\ lastRun.keys = [currentSkin |-> "url2", currentPlayerName |-> NameB]
    /\ InFlight = 0

\* C15: when the startup load of the saved skin fails after an upload or a
\* fetch has succeeded (the viewer shows a skin while the startup load is
\* still in flight, so that skin and the stored one are the interactive
\* load's), the two skin keys are left as that load wrote them and its success
\* message, if still shown, is not replaced.
C15_RestoreKeepsNewSkin ==
    [][ (RestoreSettled(FALSE) /\ viewer.skin # "")
          => /\ SkinKeysOf(localStorage') = SkinKeysOf(localStorage)
             /\ HasItem(localStorage', "currentSkin")
             /\ localStorage'["currentSkin"] = viewer.skin
             /\ ~statusText.isError /\ statusText # MsgFetching /\ statusText # MsgLoadingFile
                  => statusText' = statusText ]_vars

\* the step ends the resolution f and leaves the button enabled
C16_Reenables(f) == fetches'[f].pc = "idle" /\ ~fetchSkinBtn'.disabled

\* C16: every step that ends a resolution (404, another HTTP failure, no
\* textures property, no skin URL, a thrown error, success) leaves the fetch
\* button enabled; the button is disabled only while a resolution is waiting for
\* a call; and when every call and viewer load settles in the end, a disabled
\* button is enabled again.
C16_ButtonReenabled ==
    /\ [][ \A f \in FetchIds :
             /\ \A r \in {Http(404), Http(500), Rejected} :
                  NameFetchSettled(f, r) => C16_Reenables(f)
             /\ \A r \in {Http(404), Http(500), Rejected} :
                  SessionFetchSettled(f, r) => C16_Reenables(f)
             /\ \A body \in {BodyInvalid, BodyNoProperties, BodyNoTexturesProperty,
                               BodyNoTexturesObject, BodyNoSkinEntry, BodyNoUrl,
                               BodyEmptyUrl, BodyNotBase64, BodyNotJson} :
                  SessionJsonSettled(f, body) => C16_Reenables(f)
             /\ \A loaded \in BOOLEAN : FetchLoadSettled(f, loaded) => C16_Reenables(f)
             /\ (fetches[f].pc # "idle" /\ fetches'[f].pc = "idle")
                  => ~fetchSkinBtn'.disabled ]_vars
    /\ [](fetchSkinBtn.disabled => InFlightFetches # {})
    /\ (fetchSkinBtn.disabled ~> ~fetchSkinBtn.disabled)

\* a resolution that found no textures property has ended and the button is
\* enabled again
C16_Witness ==
    /\ statusText = MsgNoSkinData
    /\ ~fetchSkinBtn.disabled
    /\ InFlight = 0

\* C17: whenever currentPlayerName is stored, currentSkin is stored too and
\* the two are the URL and the name one successful fetch wrote together.
C17_NameHasItsSkin ==
    HasItem(localStorage, "currentPlayerName")
      => /\ HasItem(localStorage, "currentSkin")
         /\ <<localStorage["currentSkin"], localStorage["currentPlayerName"]>>
              \in { <<"url1", NameA>>, <<"url2", NameB>>, <<"url1", ToStr(Undefined)>> }

\* a fetch has replaced the saved skin and its name while an upload's viewer
\* load and the startup load are still in flight
C17_Witness ==
    /\ SkinKeysOf(localStorage) = [currentSkin |-> "url2", currentPlayerName |-> NameB]
    /\ restore.pc = "loading" /\ restore.savedSkin = "url1"
    /\ \E u \in UploadIds : uploads[u].pc = "loadSkin"

\* a 32-character key written in the dashed 8-4-4-4-12 form
C18_Dashed(key) ==
    SubSeq(key, 1, 8) \o <<"-">> \o SubSeq(key, 9, 12) \o <<"-">> \o SubSeq(key, 13, 16)
      \o <<"-">> \o SubSeq(key, 17, 20) \o <<"-">> \o SubSeq(key, 21, 32)

\* the key is what the UUID-shaped text typed stands for, without a dash
C18_KeyOfInput(key, input) ==
    /\ Len(key) = 32
    /\ \A i \in 1..Len(key) : key[i] # "-"
    /\ key = input \/ C18_Dashed(key) = input

\* C18: the profile call is keyed by a UUID without dashes: a dashed input
\* with its dashes taken out, a 32-hex input as it is, and for a user name the
\* id of the name lookup, which may come with or without dashes, without them.
C18_ProfileKeyWithoutDashes ==
    [][ /\ \A text \in EdgeTexts :
             (FetchButtonClick(text) /\ viewer.constructed /\ Trim(text) \in UuidInputs)
               => \E f \in FetchIds :
                    /\ fetches[f].pc = "idle"
                    /\ Len(fetches'[f].calls) = 1
                    /\ fetches'[f].calls[1].kind = "profile"
                    /\ C18_KeyOfInput(fetches'[f].calls[1].key, Trim(text))
        /\ \A f \in FetchIds : \A i \in {2, 3} :
             NameJsonSettled(f, NameBodies[i])
               => /\ NameBodies[i].obj.id \in {Hex32Lower, DashedLower}
                  /\ fetches'[f].calls[2] = Call("profile", Hex32Lower)
        /\ \A f \in FetchIds : \A i \in DOMAIN fetches'[f].calls :
             fetches'[f].calls[i].kind = "profile"
               => \A k \in DOMAIN fetches'[f].calls[i].key :
                    fetches'[f].calls[i].key[k] # "-" ]_vars

\* the profile call of an upper-case dashed input has been issued under a
\* 32-character key
C18_Witness ==
    \E f \in FetchIds :
        /\ fetches[f].input = DashedUpper
        /\ fetches[f].pc = "sessionFetch"
        /\ C18_KeyOfInput(fetches[f].calls[1].key, DashedUpper)
        /\ fetches[f].calls[1].key # DashedUpper

====
